---- MODULE Spec2Model ----
(***************************************************************************)
(* Blockchain Health Record: the in-memory store (server/storage.ts) and   *)
(* the REST handlers in front of it (server/routes.ts), executed one       *)
(* request at a time.                                                      *)
(***************************************************************************)
EXTENDS Integers, Sequences, FiniteSets, TLC

(* ---------------- bounds ---------------- *)
MaxUsers == 2
MaxRecords == 2
MaxAccess == 2
\* records and grants created in one run of Spec
MaxCreates == 3
\* files in the uploads directory
MaxFiles == 2

(* ---------------- strings ---------------- *)
\* A string is a sequence of characters; String.prototype.toLowerCase maps
\* every character to its lower-case form.
LowerChar(c) ==
  CASE c = "A" -> "a"
    [] c = "B" -> "b"
    [] c = "C" -> "c"
    [] c = "D" -> "d"
    [] OTHER -> c

toLowerCase(s) == [i \in 1..Len(s) |-> LowerChar(s[i])]

\* a request field that was not sent
Undefined == <<"undefined">>

\* wallet addresses clients send: one account in two spellings, and another
Addresses == { <<"a", "b">>, <<"A", "B">>, <<"c", "d">> }

Roles == {"patient", "doctor"}

DurationEnum == {"1-day", "7-days", "30-days", "permanent"}

NoUser == [address |-> <<>>, role |-> "none"]

SessionIds == {"s1"}

(* ---------------- state ---------------- *)
VARIABLES
  users,              \* MemStorage.users: id -> User
  medicalRecords,     \* MemStorage.medicalRecords: id -> MedicalRecord
  accessPermissions,  \* MemStorage.accessPermissions: id -> Access
  currentUserId,
  currentRecordId,
  currentAccessId,
  disk,               \* content of data.json
  uploads,            \* names of the files in the uploads directory
  session,            \* session id -> req.session.user (NoUser when unset)
  now,                \* the server's clock, in days
  awaiting,           \* the handlers suspended at an await, each with what it holds
  progress,           \* simulateBlockchainTransaction: let progress
  interval,           \* its setInterval timer: "none", "set" or "cleared"
  confirm,            \* its setTimeout(onComplete, 500): "none", "set" or "fired"
  reported,           \* the page's progressValue: the value progressCallback got last
  ticks,              \* the times the interval callback has run
  completed,          \* the times onComplete has been invoked
  showProgress,       \* the page's showProgress state: the dialog is open
  pending,            \* the request the running simulation will send ("none": none)
  sent,               \* the requests the page has handed to fetch, in order
  cancelled,          \* history: 'Cancel' was pressed during the running simulation
  last                \* the response on its way to the client ("none": none is)

\* the state of the browser page
client == <<progress, interval, confirm, reported, ticks, completed,
            showProgress, pending, sent, cancelled>>

vars == <<users, medicalRecords, accessPermissions, currentUserId,
          currentRecordId, currentAccessId, disk, uploads, session, now,
          awaiting, client, last>>

store == <<users, medicalRecords, accessPermissions, currentUserId,
           currentRecordId, currentAccessId, disk, uploads>>

(* ---------------- Map and Array helpers ---------------- *)
EmptyMap == [k \in {} |-> 0]

MapSet(m, k, v) == [x \in (DOMAIN m) \cup {k} |-> IF x = k THEN v ELSE m[x]]

MapDelete(m, k) == [x \in (DOMAIN m) \ {k} |-> m[x]]

Min(S) == CHOOSE x \in S : \A y \in S : x <= y

Max(S) == CHOOSE x \in S : \A y \in S : x >= y

\* Array.from(map.values()): ids are handed out in increasing order, so the
\* insertion order of a Map is the order of its keys
KeysInOrder(S) ==
  IF S = {} THEN <<>>
  ELSE SelectSeq([i \in 1..Max(S) |-> i], LAMBDA k : k \in S)

MapValues(m) ==
  LET keys == KeysInOrder(DOMAIN m)
  IN [i \in 1..Len(keys) |-> m[keys[i]]]

Includes(arr, x) == \E i \in 1..Len(arr) : arr[i] = x

FilterOut(arr, x) == SelectSeq(arr, LAMBDA e : e # x)

Elems(arr) == {arr[i] : i \in 1..Len(arr)}

\* Array.prototype.find / Map.get: no element (<<>>) or the element (<<e>>)
None == <<>>
Some(e) == <<e>>

(* ---------------- MemStorage (server/storage.ts) ---------------- *)
\* new Date() at instant t, and the ISO string JSON.stringify writes for it
Date(t) == [type |-> "Date", time |-> t]

toISOString(d) == [type |-> "string", time |-> d.time]

\* JSON.stringify then JSON.parse of one entity: a Date becomes its ISO
\* string, strings, numbers and arrays of numbers come back as they are
toJSON(entity) ==
  [entity EXCEPT !.createdAt = IF @.type = "Date" THEN toISOString(@) ELSE @]

\* Object.fromEntries(map) through JSON: the keys come back by Number(id)
fromEntries(map) == [id \in DOMAIN map |-> toJSON(map[id])]

\* the document JSON.stringify writes and JSON.parse reads back
Document(u, r, a) ==
  [users |-> fromEntries(u), medicalRecords |-> fromEntries(r),
   accessPermissions |-> fromEntries(a)]

\* saveData that never writes
saveDataSkipped(u, r, a, writeOk) == disk

\* saveData whose failed write leaves a document without entities
saveDataTruncating(u, r, a, writeOk) ==
  IF writeOk THEN Document(u, r, a) ELSE Document(EmptyMap, EmptyMap, EmptyMap)

\* saveData: writeFileSync replaces the document; a failed write is logged
\* and the document keeps its content
saveData(u, r, a, writeOk) == IF writeOk THEN Document(u, r, a) ELSE disk

\* getUserByAddress comparing the addresses as they are spelled
getUserByAddressExact(address) ==
  LET hit == SelectSeq(MapValues(users), LAMBDA user : user.address = address)
  IN IF Len(hit) = 0 THEN None ELSE Some(hit[1])

getUserByAddress(address) ==
  LET hit == SelectSeq(MapValues(users),
                       LAMBDA user : toLowerCase(user.address) = toLowerCase(address))
  IN IF Len(hit) = 0 THEN None ELSE Some(hit[1])

createUser(insertUser) ==
  [id |-> currentUserId, address |-> insertUser.address, role |-> insertUser.role,
   createdAt |-> Date(now)]

getMedicalRecord(id) ==
  IF id \in DOMAIN medicalRecords THEN Some(medicalRecords[id]) ELSE None

\* getMedicalRecordsByPatient comparing the addresses as they are spelled
getMedicalRecordsByPatientExact(patientAddress) ==
  SelectSeq(MapValues(medicalRecords),
            LAMBDA record : record.patientAddress = patientAddress)

getMedicalRecordsByPatient(patientAddress) ==
  SelectSeq(MapValues(medicalRecords),
            LAMBDA record : toLowerCase(record.patientAddress) = toLowerCase(patientAddress))

\* fileHash and transactionHash are fresh synthetic strings nothing reads
createMedicalRecord(record) ==
  [id |-> currentRecordId, title |-> record.title, recordType |-> record.recordType,
   recordDate |-> record.recordDate, patientAddress |-> record.patientAddress,
   filePath |-> record.filePath, createdAt |-> Date(now)]

\* the forEach keeping only the ids above the deleted one
ShrinkAccessAboveOnly(access, id) ==
  IF Includes(access.recordIds, id)
  THEN LET updatedRecordIds == SelectSeq(access.recordIds, LAMBDA recordId : recordId > id)
       IN IF Len(updatedRecordIds) = 0
          THEN None
          ELSE Some([access EXCEPT !.recordIds = updatedRecordIds])
  ELSE Some(access)

\* the forEach of deleteMedicalRecord over one entry: the grant as it is kept
\* (<<grant>>), or <<>> when it is deleted
ShrinkAccess(access, id) ==
  IF Includes(access.recordIds, id)
  THEN LET updatedRecordIds == FilterOut(access.recordIds, id)
       IN IF Len(updatedRecordIds) = 0
          THEN None
          ELSE Some([access EXCEPT !.recordIds = updatedRecordIds])
  ELSE Some(access)

\* the cascade keeping a grant it has emptied
CascadeAccessKeepEmpty(perms, id) ==
  [accessId \in DOMAIN perms |->
     [perms[accessId] EXCEPT !.recordIds = FilterOut(perms[accessId].recordIds, id)]]

\* the cascade dropping the grants of the one id and leaving the others whole
CascadeAccessDropOnly(perms, id) ==
  LET kept == {accessId \in DOMAIN perms : perms[accessId].recordIds # <<id>>}
  IN [accessId \in kept |-> perms[accessId]]

\* accessPermissions after deleteMedicalRecord(id) has removed the references
CascadeAccess(perms, id) ==
  LET kept == {accessId \in DOMAIN perms : Len(ShrinkAccess(perms[accessId], id)) > 0}
  IN [accessId \in kept |-> ShrinkAccess(perms[accessId], id)[1]]

getAccess(id) ==
  IF id \in DOMAIN accessPermissions THEN Some(accessPermissions[id]) ELSE None

getAccessByPatient(patientAddress) ==
  SelectSeq(MapValues(accessPermissions),
            LAMBDA access : toLowerCase(access.patientAddress) = toLowerCase(patientAddress))

\* getExpiryText of the grants page: the days a duration adds to createdAt
daysToAdd(duration) ==
  CASE duration = "1-day" -> 1
    [] duration = "7-days" -> 7
    [] duration = "30-days" -> 30
    [] OTHER -> 0

\* getExpiryText(access) = "Expired": daysRemaining <= 0
Expired(access) ==
  /\ access.duration # "permanent"
  /\ (access.createdAt.time + daysToAdd(access.duration)) - now <= 0

\* getAccessByDoctor leaving out the grants the page shows as expired
getAccessByDoctorUnexpired(doctorAddress) ==
  SelectSeq(MapValues(accessPermissions),
            LAMBDA access : /\ toLowerCase(access.doctorAddress) = toLowerCase(doctorAddress)
                            /\ ~Expired(access))

\* getAccessByDoctor comparing the addresses as they are spelled
getAccessByDoctorExact(doctorAddress) ==
  SelectSeq(MapValues(accessPermissions),
            LAMBDA access : access.doctorAddress = doctorAddress)

getAccessByDoctor(doctorAddress) ==
  SelectSeq(MapValues(accessPermissions),
            LAMBDA access : toLowerCase(access.doctorAddress) = toLowerCase(doctorAddress))

createAccess(access) ==
  [id |-> currentAccessId, patientAddress |-> access.patientAddress,
   doctorAddress |-> access.doctorAddress, recordIds |-> access.recordIds,
   duration |-> access.duration, createdAt |-> Date(now)]

\* new Set(accessList.map(a => a.patientAddress)) in insertion order
RECURSIVE Distinct(_)
Distinct(arr) ==
  IF Len(arr) = 0 THEN <<>>
  ELSE LET front == Distinct(SubSeq(arr, 1, Len(arr) - 1))
           x == arr[Len(arr)]
       IN IF Includes(front, x) THEN front ELSE Append(front, x)

RECURSIVE Concat(_)
Concat(lists) ==
  IF Len(lists) = 0 THEN <<>> ELSE Head(lists) \o Concat(Tail(lists))

\* getAccessibleRecordsByDoctor keeping only the records some grant names
getAccessibleRecordsGrantedOnly(doctorAddress) ==
  LET accessList == getAccessByDoctor(doctorAddress)
      patientAddresses ==
        Distinct([i \in 1..Len(accessList) |-> accessList[i].patientAddress])
      named(record) == \E i \in 1..Len(accessList) : Includes(accessList[i].recordIds, record.id)
  IN [accessList |-> accessList,
      records |-> SelectSeq(Concat([i \in 1..Len(patientAddresses) |->
                                      getMedicalRecordsByPatient(patientAddresses[i])]),
                            named)]

getAccessibleRecordsByDoctor(doctorAddress) ==
  LET accessList == getAccessByDoctor(doctorAddress)
      patientAddresses ==
        Distinct([i \in 1..Len(accessList) |-> accessList[i].patientAddress])
  IN [accessList |-> accessList,
      records |-> Concat([i \in 1..Len(patientAddresses) |->
                            getMedicalRecordsByPatient(patientAddresses[i])])]

(* ---------------- requests (server/routes.ts) ---------------- *)
\* parseInt of a path segment that is no number
NaN == -1
isNaN(n) == n < 0

\* a response on its way: the route, the status and
\* user is req.session.user as the handler read it, arg the id of the path
\* or the list the response carries
Answer(op, user, status, arg) ==
  [op |-> op, user |-> user, status |-> status, arg |-> arg]

\* the middleware letting every request through
authenticateAlways(user) == TRUE

\* the authenticate middleware
authenticate(user) == user.role # "none"

\* POST /api/auth/login
LoginStatus(address, role) ==
  IF address = <<>> \/ role = ""
  THEN 400
  ELSE IF role # "patient" /\ role # "doctor"
       THEN 400
       ELSE 200

Login(s, address, role) ==
  LET status == LoginStatus(address, role)
  IN /\ session' = IF status = 200
                   THEN [session EXCEPT ![s] = [address |-> address, role |-> role]]
                   ELSE session
     /\ last' = Answer("login", NoUser, status, 0)
     /\ UNCHANGED <<store, now, awaiting, client>>

\* POST /api/auth/logout
Logout(s) ==
  /\ session' = [session EXCEPT ![s] = NoUser]
  /\ last' = Answer("logout", NoUser, 200, 0)
  /\ UNCHANGED <<store, now, awaiting, client>>

\* insertUserSchema.parse
insertUserSchemaOk(body) ==
  body.address # Undefined /\ body.role \in Roles

\* POST /api/users
PostUsersStatus(body) ==
  IF ~insertUserSchemaOk(body)
  THEN 400
  ELSE IF Len(getUserByAddress(body.address)) > 0
       THEN 409
       ELSE 201

\* POST /api/users storing the user before it looks at the request
PostUsersStoreFirst(body, writeOk) ==
  LET status == PostUsersStatus(body)
      user == createUser(body)
  IN /\ users' = MapSet(users, user.id, user)
     /\ currentUserId' = currentUserId + 1
     /\ disk' = saveData(users', medicalRecords, accessPermissions, writeOk)
     /\ last' = Answer("postUsers", NoUser, status, body.address)
     /\ UNCHANGED <<medicalRecords, accessPermissions, currentRecordId,
                    currentAccessId, uploads, session, now, awaiting, client>>

PostUsers(body, writeOk) ==
  LET status == PostUsersStatus(body)
      user == createUser(body)
  IN /\ IF status = 201
        THEN /\ users' = MapSet(users, user.id, user)
             /\ currentUserId' = currentUserId + 1
             /\ disk' = saveData(users', medicalRecords, accessPermissions, writeOk)
        ELSE UNCHANGED <<users, currentUserId, disk>>
     /\ last' = Answer("postUsers", NoUser, status, body.address)
     /\ UNCHANGED <<medicalRecords, accessPermissions, currentRecordId,
                    currentAccessId, uploads, session, now, awaiting, client>>

\* multer's diskStorage filename: a name no file of the directory has
FreshFile == Min((1..(Cardinality(uploads) + 1)) \ uploads)

\* multer's fileFilter on the extension of the uploaded file
AllowedTypes == {"pdf", "png", "jpg", "jpeg", "gif"}

\* upload.single("file"): "none" is a request without a file part
FileStored(user, file) == authenticate(user) /\ file \in AllowedTypes

\* POST /api/records
PostRecordsStatus(user, file, body) ==
  IF ~authenticate(user) THEN 401
  ELSE IF file # "none" /\ file \notin AllowedTypes THEN 500
  ELSE IF file = "none" THEN 400
  ELSE IF body.title = "" \/ body.recordType = "" \/ body.recordDate = ""
          \/ body.patientAddress = <<>> THEN 400
  ELSE IF user.role = "patient"
          /\ toLowerCase(user.address) # toLowerCase(body.patientAddress) THEN 403
  ELSE 201

PostRecords(s, file, body, writeOk) ==
  LET user == session[s]
      status == PostRecordsStatus(user, file, body)
      record == createMedicalRecord([title |-> body.title,
                                     recordType |-> body.recordType,
                                     recordDate |-> body.recordDate,
                                     patientAddress |-> body.patientAddress,
                                     filePath |-> FreshFile])
  IN /\ uploads' = IF FileStored(user, file) THEN uploads \cup {FreshFile} ELSE uploads
     /\ IF status = 201
        THEN /\ medicalRecords' = MapSet(medicalRecords, record.id, record)
             /\ currentRecordId' = currentRecordId + 1
             /\ disk' = saveData(users, medicalRecords', accessPermissions, writeOk)
        ELSE UNCHANGED <<medicalRecords, currentRecordId, disk>>
     /\ last' = Answer("postRecords", user, status, 0)
     /\ UNCHANGED <<users, accessPermissions, currentUserId, currentAccessId, session, now,
                    awaiting, client>>

\* GET /api/records letting every doctor through
GetRecordsStatusAnyDoctor(user, patientAddress) ==
  IF ~authenticate(user) THEN 401
  ELSE IF patientAddress = <<>> THEN 400
  ELSE IF user.role = "patient"
          /\ toLowerCase(user.address) # toLowerCase(patientAddress) THEN 403
  ELSE 200

\* GET /api/records?patientAddress=
GetRecordsStatus(user, patientAddress) ==
  IF ~authenticate(user) THEN 401
  ELSE IF patientAddress = <<>> THEN 400
  ELSE IF user.role = "patient"
       THEN IF toLowerCase(user.address) # toLowerCase(patientAddress) THEN 403 ELSE 200
       ELSE IF user.role = "doctor"
            THEN LET accessList == getAccessByDoctor(user.address)
                     hasAccess == \E i \in 1..Len(accessList) :
                        toLowerCase(accessList[i].patientAddress) = toLowerCase(patientAddress)
                 IN IF ~hasAccess THEN 403 ELSE 200
            ELSE 200

\* the records of the 200 response
GetRecordsBody(user, patientAddress) ==
  IF GetRecordsStatus(user, patientAddress) = 200
  THEN getMedicalRecordsByPatient(patientAddress)
  ELSE <<>>

GetRecords(s, patientAddress) ==
  LET user == session[s]
      status == GetRecordsStatus(user, patientAddress)
  IN /\ last' = Answer("getRecords", user, status, GetRecordsBody(user, patientAddress))
     /\ UNCHANGED <<store, session, now, awaiting, client>>

\* the view check without the recordIds test
ViewStatusAnyRecord(user, recordId) ==
  IF ~authenticate(user) THEN 401
  ELSE IF isNaN(recordId) THEN 400
  ELSE IF Len(getMedicalRecord(recordId)) = 0 THEN 404
  ELSE LET record == getMedicalRecord(recordId)[1]
       IN IF user.role = "patient"
             /\ toLowerCase(user.address) # toLowerCase(record.patientAddress) THEN 403
          ELSE IF user.role = "doctor"
                  /\ LET accessList == getAccessByDoctor(user.address)
                     IN ~\E i \in 1..Len(accessList) :
                          toLowerCase(accessList[i].patientAddress)
                            = toLowerCase(record.patientAddress)
               THEN 403
          ELSE IF record.filePath \notin uploads THEN 404
          ELSE 200

\* GET /api/records/view/:id
ViewStatus(user, recordId) ==
  IF ~authenticate(user) THEN 401
  ELSE IF isNaN(recordId) THEN 400
  ELSE IF Len(getMedicalRecord(recordId)) = 0 THEN 404
  ELSE LET record == getMedicalRecord(recordId)[1]
       IN IF user.role = "patient"
             /\ toLowerCase(user.address) # toLowerCase(record.patientAddress) THEN 403
          ELSE IF user.role = "doctor"
                  /\ LET accessList == getAccessByDoctor(user.address)
                     IN ~\E i \in 1..Len(accessList) :
                          /\ toLowerCase(accessList[i].patientAddress)
                               = toLowerCase(record.patientAddress)
                          /\ Includes(accessList[i].recordIds, record.id)
               THEN 403
          ELSE IF record.filePath \notin uploads THEN 404
          ELSE 200

ViewRecord(s, recordId) ==
  LET user == session[s]
      status == ViewStatus(user, recordId)
  IN /\ last' = Answer("view", user, status, recordId)
     /\ UNCHANGED <<store, session, now, awaiting, client>>

\* GET /api/records/download/:id
DownloadStatus(user, recordId) ==
  IF ~authenticate(user) THEN 401
  ELSE IF isNaN(recordId) THEN 400
  ELSE IF Len(getMedicalRecord(recordId)) = 0 THEN 404
  ELSE LET record == getMedicalRecord(recordId)[1]
       IN IF user.role = "patient"
             /\ toLowerCase(user.address) # toLowerCase(record.patientAddress) THEN 403
          ELSE IF user.role = "doctor"
                  /\ LET accessList == getAccessByDoctor(user.address)
                     IN ~\E i \in 1..Len(accessList) :
                          /\ toLowerCase(accessList[i].patientAddress)
                               = toLowerCase(record.patientAddress)
                          /\ Includes(accessList[i].recordIds, record.id)
               THEN 403
          ELSE IF record.filePath \notin uploads THEN 404
          ELSE 200

DownloadRecord(s, recordId) ==
  LET user == session[s]
      status == DownloadStatus(user, recordId)
  IN /\ last' = Answer("download", user, status, recordId)
     /\ UNCHANGED <<store, session, now, awaiting, client>>

\* the delete check letting every doctor through
DeleteRecordStatusAnyDoctor(user, recordId) ==
  IF ~authenticate(user) THEN 401
  ELSE IF isNaN(recordId) THEN 400
  ELSE IF Len(getMedicalRecord(recordId)) = 0 THEN 404
  ELSE IF user.role = "patient"
          /\ toLowerCase(user.address)
               # toLowerCase(getMedicalRecord(recordId)[1].patientAddress) THEN 403
  ELSE 200

\* DELETE /api/records/:id
DeleteRecordStatus(user, recordId) ==
  IF ~authenticate(user) THEN 401
  ELSE IF isNaN(recordId) THEN 400
  ELSE IF Len(getMedicalRecord(recordId)) = 0 THEN 404
  ELSE LET record == getMedicalRecord(recordId)[1]
       IN IF user.role = "patient"
             /\ toLowerCase(user.address) # toLowerCase(record.patientAddress) THEN 403
          ELSE IF user.role = "doctor"
                  /\ LET accessList == getAccessByDoctor(user.address)
                     IN ~\E i \in 1..Len(accessList) :
                          /\ toLowerCase(accessList[i].patientAddress)
                               = toLowerCase(record.patientAddress)
                          /\ Includes(accessList[i].recordIds, record.id)
               THEN 403
          ELSE 200

\* deleteMedicalRecord giving up when the file cannot be removed
deleteMedicalRecordAborting(id, unlinkOk, writeOk) ==
  IF id \notin DOMAIN medicalRecords
     \/ (medicalRecords[id].filePath \in uploads /\ ~unlinkOk)
  THEN UNCHANGED <<uploads, accessPermissions, medicalRecords, disk>>
  ELSE /\ uploads' = uploads \ {medicalRecords[id].filePath}
       /\ accessPermissions' = CascadeAccess(accessPermissions, id)
       /\ medicalRecords' = MapDelete(medicalRecords, id)
       /\ disk' = saveData(users, medicalRecords', accessPermissions', writeOk)

\* MemStorage.deleteMedicalRecord(id): false for an unknown id; for a stored
\* one unlink the file (a failure is logged), shrink or drop the grants, drop
\* the record, save
deleteMedicalRecord(id, unlinkOk, writeOk) ==
  IF id \notin DOMAIN medicalRecords
  THEN UNCHANGED <<uploads, accessPermissions, medicalRecords, disk>>
  ELSE LET record == medicalRecords[id]
       IN /\ uploads' = IF record.filePath \in uploads /\ unlinkOk
                        THEN uploads \ {record.filePath}
                        ELSE uploads
          /\ accessPermissions' = CascadeAccess(accessPermissions, id)
          /\ medicalRecords' = MapDelete(medicalRecords, id)
          /\ disk' = saveData(users, medicalRecords', accessPermissions', writeOk)

DeleteRecord(s, recordId, unlinkOk, writeOk) ==
  LET user == session[s]
      status == DeleteRecordStatus(user, recordId)
  IN /\ IF status = 200
        THEN deleteMedicalRecord(recordId, unlinkOk, writeOk)
        ELSE UNCHANGED <<uploads, accessPermissions, medicalRecords, disk>>
     /\ last' = Answer("deleteRecord", user, status, recordId)
     /\ UNCHANGED <<users, currentUserId, currentRecordId, currentAccessId, session, now,
                    awaiting, client>>

\* insertAccessSchema.parse({patientAddress, doctorAddress, recordIds, duration})
insertAccessSchemaOk(body) ==
  /\ body.patientAddress # Undefined
  /\ body.doctorAddress # Undefined
  /\ body.accessDuration \in DurationEnum

\* the ownership filter looking at the first id only
invalidRecordsFirstOnly(recordIds, patientRecords) ==
  LET patientRecordIds == [i \in 1..Len(patientRecords) |-> patientRecords[i].id]
  IN SelectSeq(IF Len(recordIds) = 0 THEN <<>> ELSE <<recordIds[1]>>,
               LAMBDA id : ~Includes(patientRecordIds, id))

\* recordIds.filter(id => !patientRecordIds.includes(id))
invalidRecords(recordIds, patientRecords) ==
  LET patientRecordIds == [i \in 1..Len(patientRecords) |-> patientRecords[i].id]
  IN SelectSeq(recordIds, LAMBDA id : ~Includes(patientRecordIds, id))

\* POST /api/access without the role test
PostAccessStatusAnyRole(user, body) ==
  IF ~authenticate(user) THEN 401
  ELSE IF body.patientAddress = Undefined THEN 400
  ELSE IF toLowerCase(user.address) # toLowerCase(body.patientAddress) THEN 403
  ELSE IF ~insertAccessSchemaOk(body) THEN 400
  ELSE IF Len(invalidRecords(body.recordIds,
                             getMedicalRecordsByPatient(body.patientAddress))) > 0 THEN 400
  ELSE 201

\* POST /api/access
PostAccessStatus(user, body) ==
  IF ~authenticate(user) THEN 401
  ELSE IF user.role # "patient" THEN 403
  ELSE IF body.patientAddress = Undefined THEN 400
  ELSE IF toLowerCase(user.address) # toLowerCase(body.patientAddress) THEN 403
  ELSE IF ~insertAccessSchemaOk(body) THEN 400
  ELSE IF Len(invalidRecords(body.recordIds,
                             getMedicalRecordsByPatient(body.patientAddress))) > 0 THEN 400
  ELSE 201

\* invalidRecords of the 400 response "Some records don't belong to you"
PostAccessInvalid(user, body) ==
  IF /\ authenticate(user)
     /\ user.role = "patient"
     /\ body.patientAddress # Undefined
     /\ toLowerCase(user.address) = toLowerCase(body.patientAddress)
     /\ insertAccessSchemaOk(body)
  THEN invalidRecords(body.recordIds, getMedicalRecordsByPatient(body.patientAddress))
  ELSE <<>>

PostAccess(s, body, writeOk) ==
  LET user == session[s]
      status == PostAccessStatus(user, body)
      access == createAccess([patientAddress |-> body.patientAddress,
                              doctorAddress |-> body.doctorAddress,
                              recordIds |-> body.recordIds,
                              duration |-> body.accessDuration])
  IN /\ IF status = 201
        THEN /\ accessPermissions' = MapSet(accessPermissions, access.id, access)
             /\ currentAccessId' = currentAccessId + 1
             /\ disk' = saveData(users, medicalRecords, accessPermissions', writeOk)
        ELSE UNCHANGED <<accessPermissions, currentAccessId, disk>>
     /\ last' = Answer("postAccess", user, status, PostAccessInvalid(user, body))
     /\ UNCHANGED <<users, medicalRecords, currentUserId, currentRecordId,
                    uploads, session, now, awaiting, client>>

\* GET /api/access?patientAddress=
GetAccessStatus(user, patientAddress) ==
  IF ~authenticate(user) THEN 401
  ELSE IF patientAddress = <<>> THEN 400
  ELSE IF user.role = "patient"
          /\ toLowerCase(user.address) # toLowerCase(patientAddress) THEN 403
  ELSE 200

GetAccess(s, patientAddress) ==
  LET user == session[s]
      status == GetAccessStatus(user, patientAddress)
  IN /\ last' = Answer("getAccess", user, status, 0)
     /\ UNCHANGED <<store, session, now, awaiting, client>>

\* GET /api/access/doctor?doctorAddress=
GetAccessDoctorStatus(user, doctorAddress) ==
  IF ~authenticate(user) THEN 401
  ELSE IF doctorAddress = <<>> THEN 400
  ELSE IF user.role = "doctor"
          /\ toLowerCase(user.address) # toLowerCase(doctorAddress) THEN 403
  ELSE 200

GetAccessDoctor(s, doctorAddress) ==
  LET user == session[s]
      status == GetAccessDoctorStatus(user, doctorAddress)
  IN /\ last' = Answer("getAccessDoctor", user, status, 0)
     /\ UNCHANGED <<store, session, now, awaiting, client>>

\* DELETE /api/access/:id
DeleteAccessStatus(user, accessId) ==
  IF ~authenticate(user) THEN 401
  ELSE IF isNaN(accessId) THEN 400
  ELSE IF Len(getAccess(accessId)) = 0 THEN 404
  ELSE IF user.role = "patient"
          /\ toLowerCase(user.address) # toLowerCase(getAccess(accessId)[1].patientAddress)
       THEN 403
  ELSE 200

\* MemStorage.revokeAccess(id): Map.delete is false for an unknown id and
\* nothing is saved
revokeAccess(id, writeOk) ==
  IF id \notin DOMAIN accessPermissions
  THEN UNCHANGED <<accessPermissions, disk>>
  ELSE /\ accessPermissions' = MapDelete(accessPermissions, id)
       /\ disk' = saveData(users, medicalRecords, accessPermissions', writeOk)

DeleteAccess(s, accessId, writeOk) ==
  LET user == session[s]
      status == DeleteAccessStatus(user, accessId)
  IN /\ IF status = 200
        THEN revokeAccess(accessId, writeOk)
        ELSE UNCHANGED <<accessPermissions, disk>>
     /\ last' = Answer("deleteAccess", user, status, accessId)
     /\ UNCHANGED <<users, medicalRecords, currentUserId, currentRecordId,
                    currentAccessId, uploads, session, now, awaiting, client>>

(* ---------------- the requests clients send ---------------- *)
AddressInputs == Addresses \cup {<<>>}

RoleInputs == Roles \cup {"admin"}

LoginBodies ==
  [address : Addresses, role : Roles]
  \cup { [address |-> <<>>, role |-> "patient"], [address |-> <<"c", "d">>, role |-> ""],
         [address |-> <<"c", "d">>, role |-> "admin"] }

UserBodies == [address : Addresses \cup {Undefined}, role : RoleInputs]

FileInputs == {"none", "pdf", "exe"}

RecordBodies ==
  [title : {"Lab A"}, recordType : {"lab-result"}, recordDate : {"2024-01-01"},
   patientAddress : AddressInputs]

IdInputs == (1..(MaxRecords + 1)) \cup {NaN}

AccessIdInputs == (1..(MaxAccess + 1)) \cup {NaN}

RecordIdsInputs == { <<>>, <<1>>, <<2>>, <<1, 2>>, <<1, 3>> }

DoctorInputs == { <<"A", "B">>, <<"c", "d">> }

\* well-formed bodies, and one body for each way of being malformed
AccessBodies ==
  [doctorAddress : DoctorInputs, recordIds : RecordIdsInputs,
   accessDuration : {"7-days"}, patientAddress : Addresses]
  \cup [doctorAddress : {Undefined}, recordIds : {<<1>>},
        accessDuration : {"7-days"}, patientAddress : Addresses]
  \cup [doctorAddress : {<<"c", "d">>}, recordIds : {<<1>>},
        accessDuration : {"forever"}, patientAddress : Addresses]
  \cup [doctorAddress : {<<"c", "d">>}, recordIds : {<<1>>},
        accessDuration : {"7-days"}, patientAddress : {Undefined}]

\* the file system accepts every write and every unlink
NoFault == {TRUE}

(* ---------------- specification ---------------- *)
Created == (currentRecordId - 1) + (currentAccessId - 1)

Init ==
  /\ users = EmptyMap
  /\ medicalRecords = EmptyMap
  /\ accessPermissions = EmptyMap
  /\ currentUserId = 1
  /\ currentRecordId = 1
  /\ currentAccessId = 1
  /\ disk = Document(EmptyMap, EmptyMap, EmptyMap)
  /\ uploads = {}
  /\ session = [s \in SessionIds |-> NoUser]
  /\ now = 0
  /\ awaiting = [postAccess |-> {}, deleteRecord |-> {}]
  /\ progress = 0
  /\ interval = "none"
  /\ confirm = "none"
  /\ reported = 0
  /\ ticks = 0
  /\ completed = 0
  /\ showProgress = FALSE
  /\ pending = "none"
  /\ sent = <<>>
  /\ cancelled = FALSE
  /\ last = Answer("none", NoUser, 0, 0)

\* Requests are sent one at a time: the client takes the response before the
\* next request is sent.
Idle == last.op = "none"

Receive ==
  /\ ~Idle
  /\ last' = Answer("none", NoUser, 0, 0)
  /\ UNCHANGED <<store, session, now, awaiting, client>>

\* One step for each handler.  A request that would create is cut off at the
\* bounds, and an upload that is refused carries no file, so that the uploads
\* directory holds the files of the stored records and no others.
DoLogin ==
  /\ Idle
  /\ \E s \in SessionIds, body \in LoginBodies : Login(s, body.address, body.role)

DoLogout ==
  /\ Idle
  /\ \E s \in SessionIds : Logout(s)

DoPostUsers ==
  /\ Idle
  /\ \E body \in UserBodies, writeOk \in NoFault :
       /\ PostUsersStatus(body) = 201 => currentUserId <= MaxUsers
       /\ PostUsers(body, writeOk)

DoPostRecords ==
  /\ Idle
  /\ \E s \in SessionIds, file \in FileInputs, body \in RecordBodies, writeOk \in NoFault :
       /\ FileStored(session[s], file) => PostRecordsStatus(session[s], file, body) = 201
       /\ PostRecordsStatus(session[s], file, body) = 201 =>
            currentRecordId <= MaxRecords /\ Created < MaxCreates
       /\ PostRecords(s, file, body, writeOk)

DoGetRecords ==
  /\ Idle
  /\ \E s \in SessionIds, patientAddress \in AddressInputs : GetRecords(s, patientAddress)

DoViewRecord ==
  /\ Idle
  /\ \E s \in SessionIds, recordId \in IdInputs : ViewRecord(s, recordId)

DoDownloadRecord ==
  /\ Idle
  /\ \E s \in SessionIds, recordId \in IdInputs : DownloadRecord(s, recordId)

DoDeleteRecord ==
  /\ Idle
  /\ \E s \in SessionIds, recordId \in IdInputs, unlinkOk \in NoFault, writeOk \in NoFault :
       DeleteRecord(s, recordId, unlinkOk, writeOk)

DoPostAccess ==
  /\ Idle
  /\ \E s \in SessionIds, body \in AccessBodies, writeOk \in NoFault :
       /\ PostAccessStatus(session[s], body) = 201 =>
            currentAccessId <= MaxAccess /\ Created < MaxCreates
       /\ PostAccess(s, body, writeOk)

DoGetAccess ==
  /\ Idle
  /\ \E s \in SessionIds, patientAddress \in AddressInputs : GetAccess(s, patientAddress)

DoGetAccessDoctor ==
  /\ Idle
  /\ \E s \in SessionIds, doctorAddress \in AddressInputs : GetAccessDoctor(s, doctorAddress)

DoDeleteAccess ==
  /\ Idle
  /\ \E s \in SessionIds, accessId \in AccessIdInputs, writeOk \in NoFault :
       DeleteAccess(s, accessId, writeOk)

\* Records and grants.  POST /api/users is left to SpecUsers: it reads and
\* writes users and currentUserId, which no other handler touches.
Next ==
  \/ DoLogin
  \/ DoLogout
  \/ DoPostRecords
  \/ DoGetRecords
  \/ DoViewRecord
  \/ DoDownloadRecord
  \/ DoDeleteRecord
  \/ DoPostAccess
  \/ DoGetAccess
  \/ DoGetAccessDoctor
  \/ DoDeleteAccess
  \/ Receive

Spec == Init /\ [][Next]_vars

\* The address registry.
NextUsers ==
  \/ DoLogin
  \/ DoLogout
  \/ DoPostUsers
  \/ Receive

SpecUsers == Init /\ [][NextUsers]_vars

(* ---------------- vocabulary of the properties ---------------- *)
UpperChar(c) ==
  CASE c = "a" -> "A"
    [] c = "b" -> "B"
    [] c = "c" -> "C"
    [] c = "d" -> "D"
    [] OTHER -> c

\* two addresses are equal ignoring letter case
EqIgnoreCase(a, b) ==
  /\ Len(a) = Len(b)
  /\ \A i \in 1..Len(a) : UpperChar(a[i]) = UpperChar(b[i])

\* the users a session can carry
Callers == [address : Addresses, role : Roles]

Doctor(address) == [address |-> address, role |-> "doctor"]

Patient(address) == [address |-> address, role |-> "patient"]

Grants == {accessPermissions[a] : a \in DOMAIN accessPermissions}

Records == {medicalRecords[r] : r \in DOMAIN medicalRecords}

OwnedBy(id, P) ==
  id \in DOMAIN medicalRecords /\ EqIgnoreCase(medicalRecords[id].patientAddress, P)

\* some grant in gs gives doctor D the record id of patient P
GrantCovers(gs, D, P, id) ==
  \E g \in gs :
    /\ EqIgnoreCase(g.doctorAddress, D)
    /\ EqIgnoreCase(g.patientAddress, P)
    /\ id \in Elems(g.recordIds)

\* the caller may read or delete record R
Authorized(user, R) ==
  IF user.role = "doctor"
  THEN GrantCovers(Grants, user.address, R.patientAddress, R.id)
  ELSE EqIgnoreCase(user.address, R.patientAddress)

\* The handlers' answers are read off the stores between two requests: a
\* response on its way leaves the stores and the session as they are, so what
\* holds of the answers when Idle holds of them in every state.

\* the doctor check of view, download and delete lets D through / stops D
DoctorPasses(D, id) ==
  /\ ViewStatus(Doctor(D), id) = 200
  /\ DownloadStatus(Doctor(D), id) = 200
  /\ DeleteRecordStatus(Doctor(D), id) = 200

DoctorRefused(D, id) ==
  /\ ViewStatus(Doctor(D), id) = 403
  /\ DownloadStatus(Doctor(D), id) = 403
  /\ DeleteRecordStatus(Doctor(D), id) = 403

(* ---------------- C1 ---------------- *)
\* C1: in every reachable state every stored access grant has a non-empty
\* recordIds list.
C1_NoEmptyGrant ==
  \A a \in DOMAIN accessPermissions : Len(accessPermissions[a].recordIds) > 0

(* ---------------- C2 ---------------- *)
\* C2: after deleteMedicalRecord(R.id) has returned true for a stored record R,
\* R is absent, no grant holds R.id, every grant whose recordIds was exactly
\* {R.id} is absent, and a doctor whose only grant was such a grant gets no
\* grants and no records from getAccessibleRecordsByDoctor.
C2_DeleteCascades ==
  [][ \A id \in 1..MaxRecords :
        (last'.op = "deleteRecord" /\ last'.status = 200 /\ last'.arg = id) =>
           /\ id \in DOMAIN medicalRecords
           /\ getMedicalRecord(id)' = None
           /\ \A a \in DOMAIN accessPermissions' :
                id \notin Elems(accessPermissions'[a].recordIds)
           /\ \A a \in DOMAIN accessPermissions :
                Elems(accessPermissions[a].recordIds) = {id}
                  => a \notin DOMAIN accessPermissions'
           /\ \A D \in Addresses :
                LET mine == {g \in Grants : EqIgnoreCase(g.doctorAddress, D)}
                IN (Cardinality(mine) = 1 /\ \A g \in mine : Elems(g.recordIds) = {id})
                     => getAccessibleRecordsByDoctor(D)'
                          = [accessList |-> <<>>, records |-> <<>>]
    ]_vars

\* a doctor has deleted the record of the only grant ever made, and the grant
\* is gone with it
C2_Witness ==
  /\ last.op = "deleteRecord"
  /\ last.status = 200
  /\ last.user.role = "doctor"
  /\ currentAccessId = 2
  /\ accessPermissions = EmptyMap

(* ---------------- C3 ---------------- *)
\* a grant has just been created: every doctor address equal to the grant's
\* ignoring case passes the doctor check for every id of the grant
C3_AfterGrant ==
  (last'.op = "postAccess" /\ last'.status = 201) =>
    LET g == accessPermissions'[currentAccessId]
    IN \A id \in 1..MaxRecords, D \in Addresses :
         (id \in Elems(g.recordIds) /\ EqIgnoreCase(D, g.doctorAddress))
           => DoctorPasses(D, id)'

\* C3 as stated: hasAccess(D, P, id) is true immediately after grant(P, D, ids,
\* dur) with id in ids, and false immediately after revoke(grantId) of that
\* grant.
C3_Original ==
  [][ /\ C3_AfterGrant
      /\ (last'.op = "deleteAccess" /\ last'.status = 200) =>
           LET g == accessPermissions[last'.arg]
           IN \A id \in 1..MaxRecords, D \in Addresses :
                (id \in Elems(g.recordIds) /\ EqIgnoreCase(D, g.doctorAddress))
                  => DoctorRefused(D, id)'
    ]_vars

\* C3 amended: hasAccess(D, P, id) is true immediately after the grant, and
\* immediately after revoke(grantId) it is false unless another stored grant of
\* the same doctor and patient holds id, in which case it stays true.
C3_RevokeUnlessOtherGrant ==
  [][ /\ C3_AfterGrant
      /\ (last'.op = "deleteAccess" /\ last'.status = 200) =>
           LET g == accessPermissions[last'.arg]
               others == {accessPermissions[a] : a \in DOMAIN accessPermissions \ {last'.arg}}
           IN \A id \in 1..MaxRecords, D \in Addresses :
                (id \in Elems(g.recordIds) /\ EqIgnoreCase(D, g.doctorAddress)) =>
                  IF GrantCovers(others, D, g.patientAddress, id)
                  THEN DoctorPasses(D, id)'
                  ELSE DoctorRefused(D, id)'
    ]_vars

\* a grant has been revoked and its doctor still passes through another grant
C3_Witness ==
  /\ last.op = "deleteAccess"
  /\ last.status = 200
  /\ \E g \in Grants, id \in DOMAIN medicalRecords : DoctorPasses(g.doctorAddress, id)

(* ---------------- C4 ---------------- *)
\* C4: view and download of a stored record R pass authorization for a doctor
\* session exactly when some grant has its doctor address, R's patient address
\* (both ignoring case) and R.id; for a patient session exactly when its
\* address is R's patient address ignoring case; otherwise they answer 403.
C4_ViewDownloadAuthorization ==
  Idle =>
    \A user \in Callers, R \in Records :
      IF Authorized(user, R)
      THEN ViewStatus(user, R.id) \in {200, 404} /\ DownloadStatus(user, R.id) \in {200, 404}
      ELSE ViewStatus(user, R.id) = 403 /\ DownloadStatus(user, R.id) = 403

\* a doctor has been refused a record of a patient who granted that doctor
\* another record
C4_Witness ==
  /\ last.op = "view"
  /\ last.status = 403
  /\ last.user.role = "doctor"
  /\ last.arg \in DOMAIN medicalRecords
  /\ \E g \in Grants :
       /\ EqIgnoreCase(g.doctorAddress, last.user.address)
       /\ EqIgnoreCase(g.patientAddress, medicalRecords[last.arg].patientAddress)

(* ---------------- C5 ---------------- *)
\* C5: POST /api/access by patient P answers 400 and creates no grant whenever
\* some id of recordIds is not the id of a stored record of P (ids of deleted
\* and of never created records included).
C5_GrantRejectsForeignIds ==
  /\ [](Idle =>
          \A P \in Addresses, body \in AccessBodies :
            ( /\ body.patientAddress # Undefined
              /\ EqIgnoreCase(body.patientAddress, P)
              /\ \E i \in 1..Len(body.recordIds) : ~OwnedBy(body.recordIds[i], P) )
            => PostAccessStatus(Patient(P), body) = 400)
  /\ [][ (last'.op = "postAccess" /\ last'.status # 201) =>
           accessPermissions' = accessPermissions /\ currentAccessId' = currentAccessId
       ]_vars

\* a grant naming a deleted record was answered 400
C5_Witness ==
  /\ last.op = "postAccess"
  /\ last.status = 400
  /\ \E i \in 1..Len(last.arg) :
       last.arg[i] < currentRecordId /\ last.arg[i] \notin DOMAIN medicalRecords

(* ---------------- C6 ---------------- *)
\* C6: once register(A, r) has succeeded, every register(A', r') with A' equal
\* to A ignoring case answers 409 and adds no user, so no two users have
\* addresses equal ignoring case.
C6_RegisterOncePerAddress ==
  /\ \A i, j \in DOMAIN users :
       i # j => ~EqIgnoreCase(users[i].address, users[j].address)
  /\ \A body \in [address : Addresses, role : Roles] :
       (\E i \in DOMAIN users : EqIgnoreCase(users[i].address, body.address))
         => PostUsersStatus(body) = 409

\* a registration was refused for an address stored in another spelling
C6_Witness ==
  /\ last.op = "postUsers"
  /\ last.status = 409
  /\ \A i \in DOMAIN users : users[i].address # last.arg

(* ---------------- C7 ---------------- *)
\* C7: DELETE /api/access/:id removes a grant only when the address of the
\* requesting session equals the grant's patientAddress ignoring case; from any
\* other session the request is refused and the grant stays stored.
C7_RevokeOnlyByPatient ==
  [][ (/\ last'.op = "deleteAccess"
       /\ authenticate(last'.user)
       /\ last'.arg \in DOMAIN accessPermissions
       /\ ~EqIgnoreCase(last'.user.address, accessPermissions[last'.arg].patientAddress))
      => (last'.status # 200 /\ accessPermissions' = accessPermissions)
    ]_vars

(* ---------------- C8 ---------------- *)
\* C8: DELETE /api/records/:id answers 404 for an unknown id; a stored record R
\* is deleted (200) only for R's patient or for a doctor with a grant of R's
\* patient holding R.id; every other caller gets 403 and R and the grants stay
\* as they are.
C8_DeleteRecordAuthorization ==
  [][ (last'.op = "deleteRecord" /\ authenticate(last'.user) /\ ~isNaN(last'.arg)) =>
        LET id == last'.arg
        IN IF id \notin DOMAIN medicalRecords
           THEN /\ last'.status = 404
                /\ medicalRecords' = medicalRecords
                /\ accessPermissions' = accessPermissions
           ELSE IF Authorized(last'.user, medicalRecords[id])
                THEN last'.status = 200 /\ id \notin DOMAIN medicalRecords'
                ELSE /\ last'.status = 403
                     /\ medicalRecords' = medicalRecords
                     /\ accessPermissions' = accessPermissions
    ]_vars

\* a doctor holding a grant of the patient for another record was refused
C8_Witness ==
  /\ last.op = "deleteRecord"
  /\ last.status = 403
  /\ last.user.role = "doctor"
  /\ last.arg \in DOMAIN medicalRecords
  /\ \E g \in Grants :
       /\ EqIgnoreCase(g.doctorAddress, last.user.address)
       /\ EqIgnoreCase(g.patientAddress, medicalRecords[last.arg].patientAddress)

(* ---------------- C9 ---------------- *)
\* C9: every stored grant was created by a patient session whose address is
\* the grant's patientAddress ignoring case; POST /api/access from a doctor
\* session, or naming another patientAddress, answers 403 and creates no grant.
C9_GrantsOnlyByOwner ==
  /\ [](Idle =>
          \A user \in Callers, body \in AccessBodies :
            ( \/ user.role = "doctor"
              \/ /\ body.patientAddress # Undefined
                 /\ ~EqIgnoreCase(body.patientAddress, user.address) )
            => PostAccessStatus(user, body) = 403)
  /\ [][ \A a \in DOMAIN accessPermissions' :
           IF a \in DOMAIN accessPermissions
           THEN accessPermissions'[a].patientAddress = accessPermissions[a].patientAddress
           ELSE /\ last'.op = "postAccess"
                /\ last'.status = 201
                /\ last'.user.role = "patient"
                /\ EqIgnoreCase(last'.user.address, accessPermissions'[a].patientAddress)
       ]_vars

\* a patient naming another patient's address was answered 403
C9_Witness ==
  /\ last.op = "postAccess"
  /\ last.status = 403
  /\ last.user.role = "patient"

(* ---------------- C10 ---------------- *)
\* C10: GET /api/records?patientAddress=P returns P's records only to patient P
\* and to a doctor with at least one grant of P to that doctor; every other
\* caller gets 403 and no records.
C10_ListRecordsAuthorization ==
  Idle =>
    \A user \in Callers, P \in Addresses :
      LET allowed ==
            IF user.role = "patient"
            THEN EqIgnoreCase(user.address, P)
            ELSE \E g \in Grants :
                   EqIgnoreCase(g.doctorAddress, user.address) /\ EqIgnoreCase(g.patientAddress, P)
      IN IF allowed
         THEN /\ GetRecordsStatus(user, P) = 200
              /\ Elems(GetRecordsBody(user, P))
                   = {R \in Records : EqIgnoreCase(R.patientAddress, P)}
         ELSE /\ GetRecordsStatus(user, P) = 403
              /\ GetRecordsBody(user, P) = <<>>

\* a doctor with a grant for one record was sent both records of the patient
C10_Witness ==
  /\ last.op = "getRecords"
  /\ last.status = 200
  /\ last.user.role = "doctor"
  /\ Len(last.arg) = 2
  /\ \A g \in Grants : Len(g.recordIds) = 1

(* ---------------- C11 ---------------- *)
\* C11: POST /api/records creates a record only when the session address
\* equals the submitted patientAddress ignoring case, so every record is
\* stored under the address of the session that uploaded it; any other upload
\* creates no record.
C11_UploadOnlyForSelf ==
  [][ \A id \in DOMAIN medicalRecords' :
        id \notin DOMAIN medicalRecords =>
          /\ last'.op = "postRecords"
          /\ last'.status = 201
          /\ EqIgnoreCase(last'.user.address, medicalRecords'[id].patientAddress)
    ]_vars

(* ---------------- C12 ---------------- *)
\* the routes under /api/records and /api/access
RouteOps ==
  {"postRecords", "getRecords", "view", "download", "deleteRecord",
   "postAccess", "getAccess", "getAccessDoctor", "deleteAccess"}

TickDays == {16}

MaxNow == 32

Tick ==
  /\ Idle
  /\ \E d \in TickDays :
       /\ now + d <= MaxNow
       /\ now' = now + d
  /\ UNCHANGED <<store, session, awaiting, client, last>>

\* One patient and one doctor: each uploads under the own address, the
\* patient grants, the doctor reads and deletes.
PatientAndDoctor == {Patient(<<"a", "b">>), Doctor(<<"c", "d">>)}

LoginAs(callers) ==
  /\ Idle
  /\ \E s \in SessionIds, user \in callers : Login(s, user.address, user.role)

\* the document holds what the stores hold
InSync == disk = Document(users, medicalRecords, accessPermissions)

\* A write fails only while the document is in step with the stores: one
\* failed write between two successful saves or restarts.
MayFail(writeOk) == writeOk \/ InSync

UploadOwn(F) ==
  /\ Idle
  /\ \E s \in SessionIds, body \in RecordBodies, writeOk \in F :
       /\ MayFail(writeOk)
       /\ PostRecordsStatus(session[s], "pdf", body) = 201
       /\ body.patientAddress = session[s].address
       /\ currentRecordId <= MaxRecords /\ Created < MaxCreates
       /\ Cardinality(uploads) < MaxFiles
       /\ PostRecords(s, "pdf", body, writeOk)

\* grants of every duration to the doctor
ClockAccessBodies ==
  [doctorAddress : {<<"c", "d">>}, recordIds : {<<1>>, <<1, 2>>},
   accessDuration : DurationEnum, patientAddress : {<<"a", "b">>}]

Grant(bodies, F) ==
  /\ Idle
  /\ \E s \in SessionIds, body \in bodies, writeOk \in F :
       /\ MayFail(writeOk)
       /\ PostAccessStatus(session[s], body) = 201 =>
            currentAccessId <= MaxAccess /\ Created < MaxCreates
       /\ PostAccess(s, body, writeOk)

NextClock ==
  \/ LoginAs(PatientAndDoctor)
  \/ DoLogout
  \/ UploadOwn(NoFault)
  \/ Grant(ClockAccessBodies, NoFault)
  \/ DoViewRecord
  \/ DoDownloadRecord
  \/ DoDeleteRecord
  \/ DoDeleteAccess
  \/ Receive
  \/ Tick

SpecClock == Init /\ [][NextClock]_vars

(* ---------------- C13 ---------------- *)
\* C13: authorization of a doctor does not depend on time: for every stored
\* grant with duration 1-day, 7-days or 30-days, once now is past createdAt +
\* duration the doctor still passes the view, download and delete check for
\* every stored record of the grant's patient among the grant's recordIds.
C13_ExpiredGrantStillAuthorizes ==
  Idle =>
    \A g \in Grants, id \in DOMAIN medicalRecords :
      ( /\ Expired(g)
        /\ id \in Elems(g.recordIds)
        /\ EqIgnoreCase(medicalRecords[id].patientAddress, g.patientAddress) )
      => DoctorPasses(g.doctorAddress, id)

\* a doctor was let through to a record by a grant that had expired
C13_Witness ==
  /\ last.op = "view"
  /\ last.status = 200
  /\ last.user.role = "doctor"
  /\ \A g \in Grants : Expired(g)
  /\ \E g \in Grants : g.duration = "30-days" /\ last.arg \in Elems(g.recordIds)

(* ---------------- C14 ---------------- *)
\* C14: getAccessibleRecordsByDoctor(D) returns as accessList exactly the
\* stored grants whose doctorAddress equals D ignoring case, and as records
\* exactly the stored records of the patient addresses of those grants, the
\* records no grant names included.
C14_AccessibleRecords ==
  Idle =>
    \A D \in Addresses :
      LET mine == {g \in Grants : EqIgnoreCase(g.doctorAddress, D)}
          result == getAccessibleRecordsByDoctor(D)
      IN /\ Elems(result.accessList) = mine
         /\ Elems(result.records)
              = {R \in Records : \E g \in mine : EqIgnoreCase(R.patientAddress, g.patientAddress)}

\* a doctor asked for the accessible records and the answer holds a record
\* that no grant names
C14_Witness ==
  /\ last.op = "getAccessDoctor"
  /\ last.status = 200
  /\ last.user.role = "doctor"
  /\ \E R \in Elems(getAccessibleRecordsByDoctor(last.user.address).records) :
       \A g \in Grants : R.id \notin Elems(g.recordIds)

(* ---------------- C15 ---------------- *)
\* C15: the records list of getAccessibleRecordsByDoctor(D) holds each stored
\* record at most once, also when D has several grants of one patient that
\* spell the patient address in different letter case.
C15_NoDuplicateRecords ==
  \A D \in Addresses :
    LET records == getAccessibleRecordsByDoctor(D).records
    IN \A i, j \in 1..Len(records) : records[i].id = records[j].id => i = j

(* ---------------- C16 ---------------- *)
\* C16: a record R created for patient P is in getMedicalRecordsByPatient(P')
\* immediately after the creation for every P' equal to P ignoring case, and
\* in no later state is R in getMedicalRecordsByPatient(p2) for an address p2
\* that differs from P ignoring case.
C16_ListByPatient ==
  /\ [](Idle =>
          \A R \in Records, p2 \in Addresses :
            ~EqIgnoreCase(p2, R.patientAddress)
              => R \notin Elems(getMedicalRecordsByPatient(p2)))
  /\ [][ /\ (last'.op = "postRecords" /\ last'.status = 201) =>
              /\ DOMAIN medicalRecords' = DOMAIN medicalRecords \cup {currentRecordId}
              /\ currentRecordId \notin DOMAIN medicalRecords
              /\ \A P \in Addresses :
                   EqIgnoreCase(P, medicalRecords'[currentRecordId].patientAddress)
                     => medicalRecords'[currentRecordId]
                          \in Elems(getMedicalRecordsByPatient(P)')
         /\ \A id \in DOMAIN medicalRecords :
              id \in DOMAIN medicalRecords' => medicalRecords'[id] = medicalRecords[id]
       ]_vars

\* a record was just created while a record of another patient is stored
C16_Witness ==
  /\ last.op = "postRecords"
  /\ last.status = 201
  /\ \E R1, R2 \in Records : ~EqIgnoreCase(R1.patientAddress, R2.patientAddress)

(* ---------------- restarts and failing writes ---------------- *)
\* loadData: the maps JSON.parse gives for the document, and each counter one
\* past the largest key (Math.max(...keys, 0) + 1)
loadData(data) ==
  [users |-> data.users,
   medicalRecords |-> data.medicalRecords,
   accessPermissions |-> data.accessPermissions,
   currentUserId |-> Max(DOMAIN data.users \cup {0}) + 1,
   currentRecordId |-> Max(DOMAIN data.medicalRecords \cup {0}) + 1,
   currentAccessId |-> Max(DOMAIN data.accessPermissions \cup {0}) + 1]

\* data.json is not there: existsSync is false
Absent == [exists |-> FALSE]

\* data.json holds text that JSON.parse rejects
Malformed == [exists |-> TRUE, parses |-> FALSE]

\* a constructor whose counters start at 0
MemStorageZeroBased(file) ==
  IF file \in {Absent, Malformed}
  THEN [users |-> EmptyMap, medicalRecords |-> EmptyMap, accessPermissions |-> EmptyMap,
        currentUserId |-> 0, currentRecordId |-> 0, currentAccessId |-> 0]
  ELSE loadData(file)

\* new MemStorage(): empty maps and counters at 1, then loadData, which does
\* nothing when the file is absent and whose catch only logs when JSON.parse
\* throws
MemStorage(file) ==
  LET constructed == [users |-> EmptyMap, medicalRecords |-> EmptyMap,
                      accessPermissions |-> EmptyMap,
                      currentUserId |-> 1, currentRecordId |-> 1, currentAccessId |-> 1]
  IN IF file = Absent THEN constructed
     ELSE IF file = Malformed THEN constructed
     ELSE loadData(file)

\* The process is started again: new MemStorage() loads the document, and the
\* session store, which lives in memory, starts empty.
Restart ==
  /\ Idle
  /\ LET loaded == MemStorage(disk)
     IN /\ users' = loaded.users
        /\ medicalRecords' = loaded.medicalRecords
        /\ accessPermissions' = loaded.accessPermissions
        /\ currentUserId' = loaded.currentUserId
        /\ currentRecordId' = loaded.currentRecordId
        /\ currentAccessId' = loaded.currentAccessId
  /\ session' = [s \in SessionIds |-> NoUser]
  /\ UNCHANGED <<disk, uploads, now, awaiting, client, last>>

\* writeFileSync succeeds or throws
Faults == BOOLEAN

\* POST /api/users with the bodies given
Register(bodies, F) ==
  /\ Idle
  /\ \E body \in bodies, writeOk \in F :
       /\ MayFail(writeOk)
       /\ PostUsersStatus(body) = 201 => currentUserId <= MaxUsers
       /\ PostUsers(body, writeOk)

RemoveRecord(F) ==
  /\ Idle
  /\ \E s \in SessionIds, recordId \in IdInputs, unlinkOk \in NoFault, writeOk \in F :
       /\ MayFail(writeOk)
       /\ DeleteRecord(s, recordId, unlinkOk, writeOk)

RevokeGrant(F) ==
  /\ Idle
  /\ \E s \in SessionIds, accessId \in AccessIdInputs, writeOk \in F :
       /\ MayFail(writeOk)
       /\ DeleteAccess(s, accessId, writeOk)

\* grants of seven days to the doctor
WeekBodies == {body \in ClockAccessBodies : body.accessDuration = "7-days"}

\* the mutating routes and restarts, every write succeeding
NextRestart ==
  \/ LoginAs(PatientAndDoctor)
  \/ DoLogout
  \/ Register(PatientAndDoctor, NoFault)
  \/ UploadOwn(NoFault)
  \/ Grant(WeekBodies, NoFault)
  \/ RemoveRecord(NoFault)
  \/ RevokeGrant(NoFault)
  \/ Restart
  \/ Receive

SpecRestart == Init /\ [][NextRestart]_vars

PatientOnly == {Patient(<<"a", "b">>)}

\* the mutating routes of one patient with writes that may fail, and restarts
NextDisk ==
  \/ LoginAs(PatientOnly)
  \/ DoLogout
  \/ Register(PatientOnly, Faults)
  \/ UploadOwn(Faults)
  \/ Grant(WeekBodies, Faults)
  \/ RemoveRecord(Faults)
  \/ RevokeGrant(Faults)
  \/ Restart
  \/ Receive

SpecDisk == Init /\ [][NextDisk]_vars

(* ---------------- C17 ---------------- *)
\* one past the largest id of a collection, 1 for an empty one
NextId(map) == IF DOMAIN map = {} THEN 1 ELSE Max(DOMAIN map) + 1

\* C17: save followed by load reproduces the same users, records and grants
\* with the same ids and fields, and after load the next-id counter of each
\* collection is the largest stored id plus 1, or 1 when the collection is
\* empty.
C17_SaveLoadRoundTrip ==
  Idle =>
    LET loaded == loadData(Document(users, medicalRecords, accessPermissions))
    IN /\ loaded.users = users
       /\ loaded.medicalRecords = medicalRecords
       /\ loaded.accessPermissions = accessPermissions
       /\ loaded.currentUserId = NextId(users)
       /\ loaded.currentRecordId = NextId(medicalRecords)
       /\ loaded.currentAccessId = NextId(accessPermissions)

\* the same with every createdAt read as the instant it stands for
C17_RoundTripOfInstants ==
  Idle =>
    LET loaded == loadData(Document(users, medicalRecords, accessPermissions))
    IN /\ loaded.users = fromEntries(users)
       /\ loaded.medicalRecords = fromEntries(medicalRecords)
       /\ loaded.accessPermissions = fromEntries(accessPermissions)
       /\ loaded.currentUserId = NextId(users)
       /\ loaded.currentRecordId = NextId(medicalRecords)
       /\ loaded.currentAccessId = NextId(accessPermissions)

(* ---------------- C18 ---------------- *)
\* C18: when file writes succeed, after every completed mutating operation
\* the persisted document holds exactly the users, records and grants of the
\* stores, so a restart between two requests loses no completed mutation.
C18_DocumentFollowsStores ==
  /\ [](disk = Document(users, medicalRecords, accessPermissions))
  /\ [][ Restart =>
           /\ fromEntries(users') = fromEntries(users)
           /\ fromEntries(medicalRecords') = fromEntries(medicalRecords)
           /\ fromEntries(accessPermissions') = fromEntries(accessPermissions)
       ]_vars

\* a grant was stored after a restart that had loaded a user and a record
C18_Witness ==
  /\ last.op = "postAccess"
  /\ last.status = 201
  /\ \E id \in DOMAIN users : users[id].createdAt.type = "string"
  /\ \E id \in DOMAIN medicalRecords : medicalRecords[id].createdAt.type = "string"
  /\ \E id \in DOMAIN accessPermissions : accessPermissions[id].createdAt.type = "Date"

(* ---------------- the store called directly ---------------- *)
\* storage.deleteMedicalRecord(id) and storage.revokeAccess(id) called with
\* any id; the answer carries 1 for true and 0 for false
StoreDeleteMedicalRecord ==
  /\ Idle
  /\ \E id \in 1..(MaxRecords + 1), unlinkOk \in NoFault, writeOk \in NoFault :
       /\ deleteMedicalRecord(id, unlinkOk, writeOk)
       /\ last' = Answer("deleteMedicalRecord", NoUser,
                         IF id \in DOMAIN medicalRecords THEN 1 ELSE 0, id)
  /\ UNCHANGED <<users, currentUserId, currentRecordId, currentAccessId, session, now,
                 awaiting, client>>

StoreRevokeAccess ==
  /\ Idle
  /\ \E id \in 1..(MaxAccess + 1), writeOk \in NoFault :
       /\ revokeAccess(id, writeOk)
       /\ last' = Answer("revokeAccess", NoUser,
                         IF id \in DOMAIN accessPermissions THEN 1 ELSE 0, id)
  /\ UNCHANGED <<users, medicalRecords, currentUserId, currentRecordId,
                 currentAccessId, uploads, session, now, awaiting, client>>

\* two patients, each a stranger to the other's records and grants
TwoPatients == {Patient(<<"a", "b">>), Patient(<<"c", "d">>)}

\* registrations of one address in two spellings, and the malformed ones
OneAddressBodies ==
  {body \in UserBodies : body.address \in {<<"a", "b">>, <<"A", "B">>, Undefined}}

\* uploads and grants that spell the addresses in lower case, the malformed
\* ones included
LowerRecordBodies == {body \in RecordBodies : body.patientAddress # <<"A", "B">>}

LowerAccessBodies ==
  {body \in AccessBodies :
     body.patientAddress # <<"A", "B">> /\ body.doctorAddress # <<"A", "B">>}

Upload(bodies, F) ==
  /\ Idle
  /\ \E s \in SessionIds, file \in FileInputs, body \in bodies, writeOk \in F :
       /\ MayFail(writeOk)
       /\ FileStored(session[s], file) => Cardinality(uploads) < MaxFiles
       /\ PostRecordsStatus(session[s], file, body) = 201 =>
            currentRecordId <= MaxRecords /\ Created < MaxCreates
       /\ PostRecords(s, file, body, writeOk)

\* the mutating routes with the requests, well-formed or not, of these
\* callers, and the two store operations that tell an unknown id
NextMutations ==
  \/ LoginAs(TwoPatients)
  \/ DoLogout
  \/ Register(OneAddressBodies, NoFault)
  \/ Upload(LowerRecordBodies, NoFault)
  \/ Grant(LowerAccessBodies, NoFault)
  \/ DoDeleteRecord
  \/ DoDeleteAccess
  \/ StoreDeleteMedicalRecord
  \/ StoreRevokeAccess
  \/ Receive

SpecMutations == Init /\ [][NextMutations]_vars

(* ---------------- C19 ---------------- *)
\* the answers of the five mutating routes
MutatingOps == {"postUsers", "postRecords", "postAccess", "deleteAccess", "deleteRecord"}

\* C19: a register, upload, grant, revoke or delete request answered 400,
\* 401, 403, 404 or 409, and a store-level delete or revoke of an unknown id
\* (which returns false), leaves the users, the records, the grants and the
\* persisted document exactly as they were.
C19_FailedMutationChangesNothing ==
  [][ ( \/ last'.op \in MutatingOps /\ last'.status \in {400, 401, 403, 404, 409}
        \/ last'.op \in {"deleteMedicalRecord", "revokeAccess"} /\ last'.status = 0 )
      => /\ users' = users
         /\ medicalRecords' = medicalRecords
         /\ accessPermissions' = accessPermissions
         /\ disk' = disk
    ]_vars

\* with a user, a record and a grant stored, the revoke of an unknown grant id
\* returned false
C19_Witness ==
  /\ last.op = "revokeAccess"
  /\ last.status = 0
  /\ last.arg \notin DOMAIN accessPermissions
  /\ users # EmptyMap
  /\ medicalRecords # EmptyMap
  /\ accessPermissions # EmptyMap

(* ---------------- C20 ---------------- *)
\* the three stores as the document would hold them
Stores == Document(users, medicalRecords, accessPermissions)

\* C20: when the write of the document fails during a registration, an
\* upload, a grant, a revocation or a deletion that passes its checks, the
\* request is still answered with its success status, the stores keep the
\* mutation and the document keeps its previous content; a restart while the
\* document is behind the stores loads the content of the document, which is
\* the state without the mutation.
C20_FailedWriteKeepsMemoryOnly ==
  /\ [][ /\ last'.op = "postUsers" =>
           \A body \in UserBodies :
              PostUsersStatus(body) = 201 /\ PostUsers(body, FALSE)
              => /\ last'.status = 201
                 /\ currentUserId \notin DOMAIN users
                 /\ currentUserId \in DOMAIN users'
                 /\ disk' = disk
         /\ last'.op = "postRecords" =>
           \A s \in SessionIds, file \in FileInputs, body \in RecordBodies :
              PostRecordsStatus(session[s], file, body) = 201 /\ PostRecords(s, file, body, FALSE)
              => /\ last'.status = 201
                 /\ currentRecordId \notin DOMAIN medicalRecords
                 /\ currentRecordId \in DOMAIN medicalRecords'
                 /\ disk' = disk
         /\ last'.op = "postAccess" =>
           \A s \in SessionIds, body \in ClockAccessBodies :
              PostAccessStatus(session[s], body) = 201 /\ PostAccess(s, body, FALSE)
              => /\ last'.status = 201
                 /\ currentAccessId \notin DOMAIN accessPermissions
                 /\ currentAccessId \in DOMAIN accessPermissions'
                 /\ disk' = disk
         /\ last'.op = "deleteAccess" =>
           \A s \in SessionIds, accessId \in 1..(MaxAccess + 1) :
              DeleteAccessStatus(session[s], accessId) = 200 /\ DeleteAccess(s, accessId, FALSE)
              => /\ last'.status = 200
                 /\ accessId \in DOMAIN accessPermissions
                 /\ accessId \notin DOMAIN accessPermissions'
                 /\ disk' = disk
         /\ last'.op = "deleteRecord" =>
           \A s \in SessionIds, recordId \in 1..(MaxRecords + 1), unlinkOk \in BOOLEAN :
              DeleteRecordStatus(session[s], recordId) = 200
              /\ DeleteRecord(s, recordId, unlinkOk, FALSE)
              => /\ last'.status = 200
                 /\ recordId \in DOMAIN medicalRecords
                 /\ recordId \notin DOMAIN medicalRecords'
                 /\ disk' = disk
       ]_vars
  /\ [][ Restart /\ ~InSync
         => /\ disk' = disk
            /\ Stores' = disk
            /\ Stores' # Stores
       ]_vars

\* a registration answered 201 whose user is in the store and not in the
\* document
C20_Witness ==
  /\ last.op = "postUsers"
  /\ last.status = 201
  /\ \E id \in DOMAIN users : id \notin DOMAIN disk.users

(* ---------------- file removal that may fail ---------------- *)
\* storage.deleteMedicalRecord(id) with an unlinkSync that may throw; the
\* answer carries 1 for true and 0 for false
StoreDelete(U) ==
  /\ Idle
  /\ \E id \in 1..(MaxRecords + 1), unlinkOk \in U, writeOk \in NoFault :
       /\ deleteMedicalRecord(id, unlinkOk, writeOk)
       /\ last' = Answer("deleteMedicalRecord", NoUser,
                         IF id \in DOMAIN medicalRecords THEN 1 ELSE 0, id)
  /\ UNCHANGED <<users, currentUserId, currentRecordId, currentAccessId, session, now,
                 awaiting, client>>

\* uploads and grants of one patient, and deletions whose file removal may fail
NextUnlink ==
  \/ LoginAs(PatientOnly)
  \/ DoLogout
  \/ UploadOwn(NoFault)
  \/ Grant(ClockAccessBodies, NoFault)
  \/ StoreDelete(Faults)
  \/ Receive

SpecUnlink == Init /\ [][NextUnlink]_vars

(* ---------------- C21 ---------------- *)
\* C21: deleteMedicalRecord(id) of a stored record whose file cannot be
\* removed still removes the record, drops id from every grant and removes
\* the grants left without ids, saves the stores and returns true.
C21_DeleteSurvivesUnlinkFailure ==
  [][ ( /\ last'.op = "deleteMedicalRecord"
        /\ last'.arg \in DOMAIN medicalRecords
        /\ medicalRecords[last'.arg].filePath \in uploads' )
      => LET id == last'.arg IN
         /\ last'.status = 1
         /\ id \notin DOMAIN medicalRecords'
         /\ DOMAIN accessPermissions' \subseteq DOMAIN accessPermissions
         /\ \A a \in 1..MaxAccess : a \in DOMAIN accessPermissions =>
              LET rest == SelectSeq(accessPermissions[a].recordIds, LAMBDA r : r # id)
              IN IF rest = <<>>
                 THEN a \notin DOMAIN accessPermissions'
                 ELSE /\ a \in DOMAIN accessPermissions'
                      /\ accessPermissions'[a].recordIds = rest
         /\ disk' = Document(users', medicalRecords', accessPermissions')
    ]_vars

\* true was returned for a record that is gone while its file is still in the
\* directory, and a grant that named it lives on without it
C21_Witness ==
  /\ last.op = "deleteMedicalRecord"
  /\ last.status = 1
  /\ last.arg \notin DOMAIN medicalRecords
  /\ Cardinality(uploads) > Cardinality(DOMAIN medicalRecords)
  /\ accessPermissions # EmptyMap
  /\ \A a \in DOMAIN accessPermissions : ~Includes(accessPermissions[a].recordIds, last.arg)

(* ---------------- a document that is missing or broken ---------------- *)
\* between two runs of the process data.json is removed or overwritten with
\* text that is not JSON
LoseDocument ==
  /\ Idle
  /\ disk \notin {Absent, Malformed}
  /\ disk' \in {Absent, Malformed}
  /\ UNCHANGED <<users, medicalRecords, accessPermissions, currentUserId, currentRecordId,
                 currentAccessId, uploads, session, now, awaiting, client, last>>

\* registrations, uploads and grants of one patient, loss of the document,
\* and restarts
NextStartup ==
  \/ LoginAs(PatientOnly)
  \/ DoLogout
  \/ Register(PatientOnly, NoFault)
  \/ UploadOwn(NoFault)
  \/ Grant(WeekBodies, NoFault)
  \/ LoseDocument
  \/ Restart
  \/ Receive

SpecStartup == Init /\ [][NextStartup]_vars

(* ---------------- C22 ---------------- *)
\* C22: a start of the process that finds the document absent, or holding
\* text that is not JSON, is possible and leaves the users, the records and
\* the grants empty and the three id counters at 1.
C22_StartsEmptyWithoutDocument ==
  /\ [](Idle /\ disk \in {Absent, Malformed} => ENABLED Restart)
  /\ [][ Restart /\ disk \in {Absent, Malformed}
         => /\ users' = EmptyMap
            /\ medicalRecords' = EmptyMap
            /\ accessPermissions' = EmptyMap
            /\ currentUserId' = 1
            /\ currentRecordId' = 1
            /\ currentAccessId' = 1
       ]_vars

\* the process ran with a record stored, lost its document and was started
\* again: the uploaded file is there, the stores are empty
C22_Witness ==
  /\ disk \in {Absent, Malformed}
  /\ uploads # {}
  /\ users = EmptyMap
  /\ medicalRecords = EmptyMap
  /\ accessPermissions = EmptyMap
  /\ currentRecordId = 1

(* ---------------- C23 ---------------- *)
\* C23: in every state reached by requests executed one after the other,
\* every id in the recordIds of every stored grant is the id of a stored
\* record whose patientAddress is the grant's patientAddress ignoring case.
C23_GrantsNameOwnStoredRecords ==
  \A a \in DOMAIN accessPermissions :
    \A i \in 1..Len(accessPermissions[a].recordIds) :
      LET id == accessPermissions[a].recordIds[i]
      IN /\ id \in DOMAIN medicalRecords
         /\ EqIgnoreCase(medicalRecords[id].patientAddress,
                         accessPermissions[a].patientAddress)

\* a record of a grant of two was deleted and the grant lives on with the
\* other record
C23_Witness ==
  /\ last.op = "deleteRecord"
  /\ last.status = 200
  /\ last.arg \notin DOMAIN medicalRecords
  /\ \E a \in DOMAIN accessPermissions : Len(accessPermissions[a].recordIds) = 1
  /\ \A a \in DOMAIN accessPermissions :
       \E id \in DOMAIN medicalRecords : accessPermissions[a].recordIds = <<id>>
  /\ currentRecordId = 3

(* ---------------- handlers suspended at their awaits ---------------- *)
\* A handler is an async function: at `await storage.f(...)` the call has run
\* (the methods of MemStorage contain no await themselves), the handler holds
\* its result and is suspended, and other handlers may run before it resumes.
MaxAwaiting == 2

Suspended == Cardinality(awaiting.postAccess) + Cardinality(awaiting.deleteRecord)

\* POST /api/access up to `await storage.getMedicalRecordsByPatient(...)`:
\* 0 when the handler gets that far, else the status it answers
PostAccessEarlyStatus(user, body) ==
  IF ~authenticate(user) THEN 401
  ELSE IF user.role # "patient" THEN 403
  ELSE IF body.patientAddress = Undefined THEN 400
  ELSE IF toLowerCase(user.address) # toLowerCase(body.patientAddress) THEN 403
  ELSE IF ~insertAccessSchemaOk(body) THEN 400
  ELSE 0

PostAccessBegin(s, body) ==
  LET user == session[s]
      early == PostAccessEarlyStatus(user, body)
  IN /\ IF early = 0
        THEN /\ awaiting' =
                  [awaiting EXCEPT !.postAccess = @ \cup
                     {[user |-> user, body |-> body,
                       patientRecords |-> getMedicalRecordsByPatient(body.patientAddress)]}]
             /\ UNCHANGED last
        ELSE /\ last' = Answer("postAccess", user, early, <<>>)
             /\ UNCHANGED awaiting
     /\ UNCHANGED <<store, session, now, client>>

\* POST /api/access from the records it was handed: the ownership filter, then
\* storage.createAccess and the response
PostAccessResume(k) ==
  LET invalid == invalidRecords(k.body.recordIds, k.patientRecords)
      access == createAccess([patientAddress |-> k.body.patientAddress,
                              doctorAddress |-> k.body.doctorAddress,
                              recordIds |-> k.body.recordIds,
                              duration |-> k.body.accessDuration])
  IN /\ k \in awaiting.postAccess
     /\ awaiting' = [awaiting EXCEPT !.postAccess = @ \ {k}]
     /\ IF Len(invalid) > 0
        THEN /\ last' = Answer("postAccess", k.user, 400, invalid)
             /\ UNCHANGED <<accessPermissions, currentAccessId, disk>>
        ELSE /\ accessPermissions' = MapSet(accessPermissions, access.id, access)
             /\ currentAccessId' = currentAccessId + 1
             /\ disk' = saveData(users, medicalRecords, accessPermissions', TRUE)
             /\ last' = Answer("postAccess", k.user, 201, <<>>)
     /\ UNCHANGED <<users, medicalRecords, currentUserId, currentRecordId,
                    uploads, session, now, client>>

\* DELETE /api/records/:id up to `await storage.getMedicalRecord(recordId)`
DeleteRecordBegin(s, recordId) ==
  LET user == session[s]
  IN /\ IF authenticate(user) /\ ~isNaN(recordId)
        THEN /\ awaiting' =
                  [awaiting EXCEPT !.deleteRecord = @ \cup
                     {[user |-> user, recordId |-> recordId, pc |-> "record",
                       record |-> getMedicalRecord(recordId), accessList |-> <<>>]}]
             /\ UNCHANGED last
        ELSE /\ last' = Answer("deleteRecord", user,
                               IF ~authenticate(user) THEN 401 ELSE 400, recordId)
             /\ UNCHANGED awaiting
     /\ UNCHANGED <<store, session, now, client>>

\* a doctor's grant, among the grants the handler was handed, names the record
DeleteHasAccess(k) ==
  \E i \in 1..Len(k.accessList) :
    /\ toLowerCase(k.accessList[i].patientAddress) = toLowerCase(k.record[1].patientAddress)
    /\ Includes(k.accessList[i].recordIds, k.record[1].id)

\* the status the handler answers from what it holds, 0 when it goes on
DeleteRecordRefusal(k) ==
  IF Len(k.record) = 0 THEN 404
  ELSE IF k.user.role = "patient"
          /\ toLowerCase(k.user.address) # toLowerCase(k.record[1].patientAddress) THEN 403
  ELSE IF k.user.role = "doctor" /\ k.pc = "accessList" /\ ~DeleteHasAccess(k) THEN 403
  ELSE 0

\* DELETE /api/records/:id from the record, or from the grants, it was handed
DeleteRecordResume(k) ==
  /\ k \in awaiting.deleteRecord
  /\ IF DeleteRecordRefusal(k) # 0
     THEN /\ awaiting' = [awaiting EXCEPT !.deleteRecord = @ \ {k}]
          /\ last' = Answer("deleteRecord", k.user, DeleteRecordRefusal(k), k.recordId)
          /\ UNCHANGED <<uploads, accessPermissions, medicalRecords, disk>>
     ELSE IF k.user.role = "doctor" /\ k.pc = "record"
     THEN /\ awaiting' =
               [awaiting EXCEPT !.deleteRecord = (@ \ {k}) \cup
                  {[k EXCEPT !.pc = "accessList",
                             !.accessList = getAccessByDoctor(k.user.address)]}]
          /\ UNCHANGED <<uploads, accessPermissions, medicalRecords, disk, last>>
     ELSE /\ awaiting' = [awaiting EXCEPT !.deleteRecord = @ \ {k}]
          /\ deleteMedicalRecord(k.recordId, TRUE, TRUE)
          /\ last' = Answer("deleteRecord", k.user,
                            IF k.recordId \in DOMAIN medicalRecords THEN 200 ELSE 500,
                            k.recordId)
  /\ UNCHANGED <<users, currentUserId, currentRecordId, currentAccessId, session, now, client>>

BeginGrant(bodies) ==
  /\ Idle
  /\ Suspended < MaxAwaiting
  /\ \E s \in SessionIds, body \in bodies : PostAccessBegin(s, body)

ResumeGrant ==
  /\ Idle
  /\ \E k \in awaiting.postAccess :
       /\ Len(invalidRecords(k.body.recordIds, k.patientRecords)) = 0
            => currentAccessId <= MaxAccess /\ Created < MaxCreates
       /\ PostAccessResume(k)

BeginDelete ==
  /\ Idle
  /\ Suspended < MaxAwaiting
  /\ \E s \in SessionIds, recordId \in IdInputs : DeleteRecordBegin(s, recordId)

ResumeDelete ==
  /\ Idle
  /\ \E k \in awaiting.deleteRecord : DeleteRecordResume(k)

\* uploads, and grants and deletions that run side by side
NextAwait ==
  \/ LoginAs(PatientAndDoctor)
  \/ DoLogout
  \/ UploadOwn(NoFault)
  \/ BeginGrant(WeekBodies)
  \/ ResumeGrant
  \/ BeginDelete
  \/ ResumeDelete
  \/ Receive

SpecAwait == Init /\ [][NextAwait]_vars

C25_PatientSeesOwnRecordsOnly ==
  Idle =>
    \A s \in SessionIds :
      LET user == session[s]
          Own(R) == EqIgnoreCase(R.patientAddress, user.address)
      IN user.role = "patient" =>
           /\ \A patientAddress \in AddressInputs :
                GetRecordsStatus(user, patientAddress) = 200 =>
                  \A R \in Elems(getMedicalRecordsByPatient(patientAddress)) : Own(R)
           /\ \A doctorAddress \in AddressInputs :
                GetAccessDoctorStatus(user, doctorAddress) = 200 =>
                  \A R \in Elems(getAccessibleRecordsByDoctor(doctorAddress).records) : Own(R)
           /\ \A recordId \in DOMAIN medicalRecords :
                /\ ViewStatus(user, recordId) = 200 => Own(medicalRecords[recordId])
                /\ DownloadStatus(user, recordId) = 200 => Own(medicalRecords[recordId])

\* the same without GET /api/access/doctor
C25_OtherEndpoints ==
  Idle =>
    \A s \in SessionIds :
      LET user == session[s]
          Own(R) == EqIgnoreCase(R.patientAddress, user.address)
      IN user.role = "patient" =>
           /\ \A patientAddress \in AddressInputs :
                GetRecordsStatus(user, patientAddress) = 200 =>
                  \A R \in Elems(getMedicalRecordsByPatient(patientAddress)) : Own(R)
           /\ \A recordId \in DOMAIN medicalRecords :
                /\ ViewStatus(user, recordId) = 200 => Own(medicalRecords[recordId])
                /\ DownloadStatus(user, recordId) = 200 => Own(medicalRecords[recordId])

(* ---------------- C26 ---------------- *)
\* C26: record ids and grant ids are never reused, also after the entity was
\* deleted and the process restarted.  A create returns the counter's value
\* and raises the counter by one, so the ids returned so far are the values
\* the counter has passed, and no id is returned twice exactly when every new
\* id is the counter's value and the counter never goes down.
C26_IdsNeverReused ==
  [][ /\ \A id \in DOMAIN medicalRecords' \ DOMAIN medicalRecords :
           id = currentRecordId /\ currentRecordId' = id + 1
      /\ \A id \in DOMAIN accessPermissions' \ DOMAIN accessPermissions :
           id = currentAccessId /\ currentAccessId' = id + 1
      /\ currentRecordId' >= currentRecordId
      /\ currentAccessId' >= currentAccessId
    ]_vars

\* the same for the steps of one run of the process
C26_WithinOneRun ==
  [][ ~Restart =>
      /\ \A id \in DOMAIN medicalRecords' \ DOMAIN medicalRecords :
           id = currentRecordId /\ currentRecordId' = id + 1
      /\ \A id \in DOMAIN accessPermissions' \ DOMAIN accessPermissions :
           id = currentAccessId /\ currentAccessId' = id + 1
      /\ currentRecordId' >= currentRecordId
      /\ currentAccessId' >= currentAccessId
    ]_vars

(* ---------------- C27 ---------------- *)
\* C27: as long as no removal of a file has failed, every file of the uploads
\* directory is the filePath of exactly one stored record: a refused upload
\* (401, 400 for missing fields, 403 for another patient) and a deleted record
\* leave no file behind.
C27_EveryFileHasItsRecord ==
  \A file \in uploads :
    Cardinality({id \in DOMAIN medicalRecords : medicalRecords[id].filePath = file}) = 1

(* ---------------- grants of several records ---------------- *)
MaxListed == 3

\* grants that list three records in two orders, two of them, and one
ListBodies ==
  [doctorAddress : {<<"c", "d">>},
   recordIds : {<<1, 2, 3>>, <<3, 1, 2>>, <<2, 3>>, <<2>>},
   accessDuration : {"7-days", "permanent"}, patientAddress : {<<"a", "b">>}]

\* POST /api/records of the session's own address, up to MaxListed records
UploadListed ==
  /\ Idle
  /\ \E s \in SessionIds, body \in RecordBodies :
       /\ PostRecordsStatus(session[s], "pdf", body) = 201
       /\ body.patientAddress = session[s].address
       /\ currentRecordId <= MaxListed
       /\ PostRecords(s, "pdf", body, TRUE)

\* POST /api/access with the bodies above
GrantListed ==
  /\ Idle
  /\ \E s \in SessionIds, body \in ListBodies :
       /\ PostAccessStatus(session[s], body) = 201 => currentAccessId <= MaxAccess
       /\ PostAccess(s, body, TRUE)

\* one patient uploads, grants lists of records and deletes records
NextCascade ==
  \/ LoginAs(PatientOnly)
  \/ DoLogout
  \/ UploadListed
  \/ GrantListed
  \/ StoreDelete(NoFault)
  \/ Receive

SpecCascade == Init /\ [][NextCascade]_vars

(* ---------------- C28 ---------------- *)
\* C28: deleteMedicalRecord(R.id) returning true changes nothing but R and the
\* grants that contain R.id: every other record, every user and every grant
\* without R.id is as before, and a grant that held R.id among other ids keeps
\* its id, patient, doctor and duration and its other record ids in their
\* order.
C28_DeleteTouchesOnlyItsRecord ==
  [][ (last'.op = "deleteMedicalRecord" /\ last'.status = 1) =>
        LET id == last'.arg IN
        /\ DOMAIN medicalRecords' = DOMAIN medicalRecords \ {id}
        /\ \A r \in DOMAIN medicalRecords' : medicalRecords'[r] = medicalRecords[r]
        /\ users' = users
        /\ DOMAIN accessPermissions' \subseteq DOMAIN accessPermissions
        /\ \A a \in DOMAIN accessPermissions :
             LET access == accessPermissions[a]
                 others == SelectSeq(access.recordIds, LAMBDA r : r # id)
             IN IF others = access.recordIds
                THEN a \in DOMAIN accessPermissions' /\ accessPermissions'[a] = access
                ELSE others # <<>> =>
                       /\ a \in DOMAIN accessPermissions'
                       /\ accessPermissions'[a].id = access.id
                       /\ accessPermissions'[a].patientAddress = access.patientAddress
                       /\ accessPermissions'[a].doctorAddress = access.doctorAddress
                       /\ accessPermissions'[a].duration = access.duration
                       /\ accessPermissions'[a].recordIds = others
    ]_vars

\* record 1 of three was deleted: the grant that listed <<3, 1, 2>> now lists
\* <<3, 2>>, and the grant of record 2 alone is as it was
C28_Witness ==
  /\ last.op = "deleteMedicalRecord"
  /\ last.status = 1
  /\ last.arg = 1
  /\ DOMAIN medicalRecords = {2, 3}
  /\ \E a, b \in DOMAIN accessPermissions :
       /\ accessPermissions[a].recordIds = <<3, 2>>
       /\ accessPermissions[b].recordIds = <<2>>

(* ---------------- the browser page ---------------- *)
MaxSent == 2

\* Math.floor(Math.random() * 10) + 5
Increments == 5..14

\* the requests a page sends from onComplete
RequestKinds == {"grant", "revoke", "deleteRecord"}

server == <<store, session, now, awaiting, last>>

\* simulateBlockchainTransaction(progressCallback, onComplete): let progress
\* = 0 and setInterval
simulateBlockchainTransaction ==
  /\ progress' = 0
  /\ interval' = "set"
  /\ confirm' = "none"
  /\ ticks' = 0
  /\ completed' = 0

\* onSubmit, handleRevokeAccess, handleDeleteConfirm: open the dialog at 0
\* and start the simulation whose onComplete sends the request; the cleanup
\* function the simulation returns is dropped
StartTransaction ==
  /\ interval # "set"
  /\ confirm # "set"
  /\ Len(sent) < MaxSent
  /\ \E kind \in RequestKinds : pending' = kind
  /\ showProgress' = TRUE
  /\ reported' = 0
  /\ cancelled' = FALSE
  /\ simulateBlockchainTransaction
  /\ UNCHANGED <<sent, server>>

\* the callback without its clearInterval
IntervalCallbackNoClear ==
  /\ interval = "set"
  /\ \E d \in Increments :
       IF progress + d >= 100
       THEN /\ progress' = 100
            /\ reported' = 100
            /\ confirm' = "set"
            /\ UNCHANGED interval
       ELSE /\ progress' = progress + d
            /\ reported' = progress + d
            /\ UNCHANGED <<interval, confirm>>
  /\ ticks' = ticks + 1
  /\ UNCHANGED <<completed, showProgress, pending, sent, cancelled, server>>

\* the callback of setInterval
IntervalCallback ==
  /\ interval = "set"
  /\ \E d \in Increments :
       IF progress + d >= 100
       THEN /\ progress' = 100
            /\ reported' = 100
            /\ interval' = "cleared"
            /\ confirm' = "set"
       ELSE /\ progress' = progress + d
            /\ reported' = progress + d
            /\ UNCHANGED <<interval, confirm>>
  /\ ticks' = ticks + 1
  /\ UNCHANGED <<completed, showProgress, pending, sent, cancelled, server>>

\* the callback of setTimeout: onComplete(), whose mutateAsync hands the
\* request to fetch
TimeoutCallback ==
  /\ confirm = "set"
  /\ confirm' = "fired"
  /\ completed' = completed + 1
  /\ sent' = Append(sent, pending)
  /\ pending' = "none"
  /\ UNCHANGED <<progress, interval, reported, ticks, showProgress, cancelled, server>>

\* Notification.handleClose from the button, labelled 'Cancel' below 100 and
\* 'Close' from 100 on: onClose() is setShowProgress(false)
handleClose ==
  /\ showProgress
  /\ showProgress' = FALSE
  /\ cancelled' = (cancelled \/ reported < 100)
  /\ UNCHANGED <<progress, interval, confirm, reported, ticks, completed, pending, sent,
                 server>>

\* Notification's effect on progress >= 100, and setShowProgress(false) once
\* the mutation has settled
AutoClose ==
  /\ showProgress
  /\ reported >= 100
  /\ showProgress' = FALSE
  /\ UNCHANGED <<progress, interval, confirm, reported, ticks, completed, pending, sent,
                 cancelled, server>>

NextClient ==
  \/ StartTransaction
  \/ IntervalCallback
  \/ TimeoutCallback
  \/ handleClose
  \/ AutoClose

SpecClient == Init /\ [][NextClient]_vars

\* timers whose time has come do fire
FairClient == SpecClient /\ WF_vars(IntervalCallback) /\ WF_vars(TimeoutCallback)

(* ---------------- C29 ---------------- *)
\* C29: a run of simulateBlockchainTransaction reports strictly increasing
\* progress values, none above 100 and the last one 100, in at most 20 ticks
\* of its timer, and then invokes onComplete once: after the 100 was reported,
\* and with no report after it.
C29_ProgressThenCompleteOnce ==
  /\ [](reported <= 100 /\ ticks <= 20 /\ completed <= 1)
  /\ [](interval = "cleared" => reported = 100)
  /\ [](completed = 1 => reported = 100 /\ interval = "cleared")
  /\ [][ (reported' # reported \/ ticks' # ticks) =>
           \/ StartTransaction
           \/ /\ interval = "set"
              /\ completed = 0
              /\ reported' > reported
              /\ ticks' = ticks + 1
       ]_vars
  /\ (interval = "set") ~> (completed = 1)

\* the slowest run: twenty ticks of 5, then onComplete
C29_Witness ==
  /\ ticks = 20
  /\ reported = 100
  /\ completed = 1

(* ---------------- C30 ---------------- *)
\* C30: once the user has dismissed the progress dialog with its 'Cancel'
\* button while progress was below 100, the pending grant, revoke or
\* delete-record request of that dialog is never handed to fetch.
C30_CancelledRequestNeverSent ==
  [][ cancelled => sent' = sent ]_vars

\* what 'Cancel' does: it closes the dialog and stops nothing
C30_CancelOnlyClosesDialog ==
  [][ handleClose =>
        /\ ~showProgress'
        /\ interval' = interval /\ confirm' = confirm /\ progress' = progress
        /\ pending' = pending /\ sent' = sent
    ]_vars

====
